---- MODULE Spec2Model ----
(***************************************************************************)
(* ArucoLocalizer (src/src/aruco_localization/ArucoLocalizer.cpp): a ROS   *)
(* node that configures an ArUco marker-map pose tracker lazily from the   *)
(* first usable CameraInfo message and, for every decoded frame, detects   *)
(* markers, estimates the camera pose and broadcasts a chain of tf         *)
(* transforms.                                                             *)
(*                                                                         *)
(* Units: lengths are integers in 1e-4 m, angles of setRPY in 1e-4 rad,    *)
(* Rodrigues vectors in quarter turns about one axis (so that every        *)
(* rotation matrix of the model has integer entries).                      *)
(***************************************************************************)
EXTENDS Integers, Sequences, FiniteSets, TLC

VARIABLES
    pc,                  \* "constructing" | "spinning" | "crashed"
    dbgAssert,           \* build: are OpenCV's CV_DbgAssert range checks compiled in
    show_output_video_,  \* ROS param read by the constructor
    mmConfig_,           \* aruco::MarkerMap
    camParams_,          \* aruco::CameraParameters
    mmPoseTracker_,      \* aruco::MarkerMapPoseTracker
    convertLog,          \* the unit of the map at each convertToMeters call
    setParamsCalls,      \* number of mmPoseTracker_.setParams calls so far
    norm,                \* the last ros2arucoCamParams call: its message and result
    frame,               \* what the last cameraCallback did
    br,                  \* transforms broadcast by the last cameraCallback
    thr                  \* where each spinner thread is inside cameraCallback

vars == <<pc, dbgAssert, show_output_video_, mmConfig_, camParams_,
          mmPoseTracker_, convertLog, setParamsCalls, norm, frame, br, thr>>

----------------------------------------------------------------------------
(* Bounds and input sets *)

\* longest distortion vector D a CameraInfo message carries
MaxDLen == 6

\* 2^16: CameraInfo.width/height are uint32, written here as two 16-bit
\* halves [hi, lo] (value hi * 2^16 + lo); cv::Size takes int
TwoPow16 == 65536

UInt32Max == [hi |-> TwoPow16 - 1, lo |-> TwoPow16 - 1]
Pixels(n) == [hi |-> 0, lo |-> n]

\* K[i], i in 0..8, with 9 distinct entries
KArray(b) == [i \in 0..8 |-> 10 * b + i]

\* D of length n, with distinct nonzero entries
DVector(n) == [i \in 1..n |-> i]

\* <<width, height>> of a CameraInfo message
ImageSizes ==
    { <<Pixels(640), Pixels(480)>>, <<UInt32Max, Pixels(480)>> }

CameraInfos ==
    { [K |-> KArray(b), D |-> DVector(n), width |-> s[1], height |-> s[2]] :
        b \in {1, 2}, n \in 0..MaxDLen, s \in ImageSizes }

Images == { [decodable |-> TRUE], [decodable |-> FALSE] }

\* marker ids the detector may report; the map holds MapIds
DetectableIds == {1, 2}
MapIds == {1}

MapFiles ==
    { [readable |-> r, mInfoType |-> t] :
        r \in BOOLEAN, t \in {"NONE", "PIX", "METERS"} }

\* ros::Time::now()
Stamps == {1, 2}

\* the spinner threads that may run cameraCallback for one subscription
Threads == {"t1", "t2"}

\* solver outputs: Rodrigues vector (quarter turns) and translation (1e-4 m)
Solutions ==
    { [ok |-> FALSE, rvec |-> <<0, 0, 0>>, tvec |-> <<0, 0, 0>>],
      [ok |-> TRUE,  rvec |-> <<0, 0, 0>>, tvec |-> <<0, 0, 0>>],
      [ok |-> TRUE,  rvec |-> <<1, 0, 0>>, tvec |-> <<1000, -2000, 5000>>],
      [ok |-> TRUE,  rvec |-> <<0, 0, 2>>, tvec |-> <<0, 300, 12000>>] }

----------------------------------------------------------------------------
(* aruco::CameraParameters and ros2arucoCamParams *)

\* a default-constructed aruco::CameraParameters: empty matrices, size (-1,-1)
DefaultCameraParameters ==
    [CameraMatrix |-> <<>>, Distorsion |-> <<>>,
     CamSize |-> [width |-> 0 - 1, height |-> 0 - 1]]

\* aruco::CameraParameters::isValid as used at line 134
CameraParametersIsValid(cp) ==
    /\ DOMAIN cp.CameraMatrix # {}
    /\ DOMAIN cp.Distorsion # {}
    /\ cp.CamSize.width # 0 - 1
    /\ cp.CamSize.height # 0 - 1

\* uint32 -> int conversion of the cv::Size constructor arguments
ToInt(u) ==
    (IF u.hi >= TwoPow16 \div 2 THEN u.hi - TwoPow16 ELSE u.hi) * TwoPow16 + u.lo

\* cv::Size size(cinfo->height, cinfo->width): cv::Size is (width, height)
MakeSize(cinfo) ==
    [width |-> ToInt(cinfo.height), height |-> ToInt(cinfo.width)]

\* the row and column handed to cameraMatrix.at<double>(row, col) for K[i]
AtRow(i) == i % 3
AtCol(i) == i - (i % 3) * 3

\* element offset cv::Mat::at addresses in a continuous 3x3 buffer
MatOffset(r, c) == r * 3 + c

\* the checks CV_DbgAssert makes in cv::Mat::at when compiled in
AtInRange(r, c) == r \in 0..2 /\ c \in 0..2

\* the loop of lines 168-169 from index i on; st = [buf, at, threw]
RECURSIVE FillCameraMatrix(_, _, _, _)
FillCameraMatrix(st, K, i, dbg) ==
    IF i >= 9 THEN st
    ELSE LET r == AtRow(i)
             c == AtCol(i)
             acc == Append(st.at, <<r, c>>)
         IN  IF dbg /\ ~AtInRange(r, c)
             THEN [st EXCEPT !.at = acc, !.threw = TRUE]
             ELSE FillCameraMatrix(
                      [st EXCEPT !.at = acc,
                                 !.buf = [j \in (DOMAIN st.buf) \cup {MatOffset(r, c)} |->
                                             IF j = MatOffset(r, c) THEN K[i] ELSE st.buf[j]]],
                      K, i + 1, dbg)

\* a length test that forgets the upper limit
DistortionUsable_AtLeast4(D) == Len(D) >= 4

\* the test of line 172
DistortionUsable(D) == Len(D) = 4 \/ Len(D) = 5

\* lines 172-184
NormalizeDistortion(D) ==
    IF DistortionUsable(D)
    THEN [coeff |-> [i \in 1..4 |-> D[i]], warned |-> FALSE]
    ELSE [coeff |-> [i \in 1..4 |-> 0], warned |-> TRUE]

\* ros2arucoCamParams: [threw, at, warned, params]
ros2arucoCamParams(cinfo, dbg) ==
    LET filled == FillCameraMatrix([buf |-> <<>>, at |-> <<>>, threw |-> FALSE],
                                   cinfo.K, 0, dbg)
        dist == NormalizeDistortion(cinfo.D)
    IN  IF filled.threw
        THEN [threw |-> TRUE, at |-> filled.at, warned |-> FALSE,
              params |-> DefaultCameraParameters]
        ELSE [threw |-> FALSE, at |-> filled.at, warned |-> dist.warned,
              params |-> [CameraMatrix |-> filled.buf,
                          Distorsion |-> dist.coeff,
                          CamSize |-> MakeSize(cinfo)]]

----------------------------------------------------------------------------
(* aruco::MarkerMap and aruco::MarkerMapPoseTracker, as the node uses them *)

\* a default-constructed aruco::MarkerMap
DefaultMarkerMap == [mInfoType |-> "NONE", ids |-> {}]

\* mmConfig_.readFromFile(mmConfigFile), line 30
readFromFile(file) == [mInfoType |-> file.mInfoType, ids |-> MapIds]

isExpressedInPixels(map) == map.mInfoType = "PIX"
isExpressedInMeters(map) == map.mInfoType = "METERS"

\* a constructor that converts whatever the unit of the map
NeedsConversion_Always(map) == TRUE

\* the test of line 40
NeedsConversion(map) == isExpressedInPixels(map)

\* mmConfig_.convertToMeters(markerSize), line 41
convertToMeters(map) == [map EXCEPT !.mInfoType = "METERS"]

\* a default-constructed aruco::MarkerMapPoseTracker
DefaultPoseTracker ==
    [isValid |-> FALSE, cam_params |-> DefaultCameraParameters,
     msconf |-> DefaultMarkerMap]

\* a validity test that always passes
PoseTrackerIsValid_Always(tracker) == TRUE

\* mmPoseTracker_.isValid(), lines 101 and 129
PoseTrackerIsValid(tracker) == tracker.isValid

\* mmPoseTracker_.setParams(camParams_, mmConfig_), line 135
setParams(tracker, cam_params, msconf) ==
    [isValid |-> TRUE, cam_params |-> cam_params, msconf |-> msconf]

\* a configuration test that forgets the unit of the map
ShouldConfigure_NoMetersCheck(tracker, map) == ~tracker.isValid

\* a configuration test that forgets that the tracker is configured already
ShouldConfigure_EveryFrame(tracker, map) == map.mInfoType = "METERS"

\* the test of line 129
ShouldConfigure(tracker, map) ==
    ~PoseTrackerIsValid(tracker) /\ isExpressedInMeters(map)

\* the test of line 134
ShouldSetParams(cp) == CameraParametersIsValid(cp)

\* lines 128-137: [threw, tracker, camParams, normCalled, call, setParamsCalled]
ConfigureTracker(tracker, camParams, map, cinfo, dbg) ==
    IF ~ShouldConfigure(tracker, map)
    THEN [threw |-> FALSE, tracker |-> tracker, camParams |-> camParams,
          normCalled |-> FALSE, call |-> norm, setParamsCalled |-> FALSE]
    ELSE LET res == ros2arucoCamParams(cinfo, dbg)
             call == [called |-> TRUE, cinfo |-> cinfo, result |-> res]
         IN  IF res.threw
             THEN [threw |-> TRUE, tracker |-> tracker, camParams |-> camParams,
                   normCalled |-> TRUE, call |-> call, setParamsCalled |-> FALSE]
             ELSE IF ShouldSetParams(res.params)
             THEN [threw |-> FALSE,
                   tracker |-> setParams(tracker, res.params, map),
                   camParams |-> res.params,
                   normCalled |-> TRUE, call |-> call, setParamsCalled |-> TRUE]
             ELSE [threw |-> FALSE, tracker |-> tracker, camParams |-> res.params,
                   normCalled |-> TRUE, call |-> call, setParamsCalled |-> FALSE]

\* mmConfig_.getIndices(detected_markers), line 97: the detections in the map
getIndices(map, detected) == detected \cap map.ids

\* mmPoseTracker_.estimatePose(detected_markers), line 102: the solver needs at
\* least one detection of the map, and may still fail
estimatePose(tracker, detected, solution) ==
    solution.ok /\ getIndices(tracker.msconf, detected) # {}

----------------------------------------------------------------------------
(* tf transforms: aruco2tf and sendtf *)

Identity3 == << <<1, 0, 0>>, <<0, 1, 0>>, <<0, 0, 1>> >>

\* rotate_to_ros, lines 200-212
rotate_to_ros == << <<0 - 1, 0, 0>>, <<0, 0, 1>>, <<0, 1, 0>> >>

Transpose(m) == [i \in 1..3 |-> [j \in 1..3 |-> m[j][i]]]

MatMul(a, b) ==
    [i \in 1..3 |-> [j \in 1..3 |->
        a[i][1] * b[1][j] + a[i][2] * b[2][j] + a[i][3] * b[3][j]]]

\* cv::Rodrigues(rvec64, rot), line 198, on quarter turns about one axis
Rodrigues(rvec) ==
    CASE rvec = <<0, 0, 0>> -> Identity3
      [] rvec = <<1, 0, 0>> -> << <<1, 0, 0>>, <<0, 0, 0 - 1>>, <<0, 1, 0>> >>
      [] rvec = <<0, 0, 2>> -> << <<0 - 1, 0, 0>>, <<0, 0 - 1, 0>>, <<0, 0, 1>> >>

\* a tf::Transform: the basis is a matrix, or the quaternion of setRPY
MatrixTransform(m, origin) ==
    [kind |-> "matrix", m |-> m, rpy |-> <<0, 0, 0>>, origin |-> origin]
RPYTransform(rpy, origin) ==
    [kind |-> "rpy", m |-> Identity3, rpy |-> rpy, origin |-> origin]

\* an aruco2tf that multiplies the remap on the wrong side
aruco2tf_LeftMultiply(rvec, tvec) ==
    MatrixTransform(MatMul(Transpose(rotate_to_ros), Rodrigues(rvec)),
                    <<tvec[1], tvec[2], tvec[3]>>)

\* aruco2tf, lines 191-223
aruco2tf(rvec, tvec) ==
    MatrixTransform(MatMul(Rodrigues(rvec), Transpose(rotate_to_ros)),
                    <<tvec[1], tvec[2], tvec[3]>>)

StampedTransform(t, stamp, frame_id, child_frame_id) ==
    [transform |-> t, stamp |-> stamp,
     frame_id |-> frame_id, child_frame_id |-> child_frame_id]

\* pitch of the camera -> body link, line 74 (1e-4 rad)
CameraBodyPitch == -15707

\* z offset of the marker map in the world, line 84 (1e-4 m)
WorldArucoZ == -4064

\* a dynamic transform with parent and child exchanged
ArucoCameraTf_Reversed(rvec, tvec, now) ==
    StampedTransform(aruco2tf(rvec, tvec), now, "camera", "aruco")

\* a world -> aruco link with the offset's sign lost
WorldArucoTf_Positive(now) ==
    StampedTransform(MatrixTransform(Identity3, <<0, 0, 0 - WorldArucoZ>>),
                     now, "world", "aruco")

\* the three br.sendTransform calls of sendtf, lines 66, 76 and 85
ArucoCameraTf(rvec, tvec, now) ==
    StampedTransform(aruco2tf(rvec, tvec), now, "aruco", "camera")
CameraBodyTf(now) ==
    StampedTransform(RPYTransform(<<0, CameraBodyPitch, 0>>, <<0, 0, 0>>),
                     now, "camera", "chiny")
WorldArucoTf(now) ==
    StampedTransform(MatrixTransform(Identity3, <<0, 0, WorldArucoZ>>),
                     now, "world", "aruco")

\* a sendtf that reads the clock again for the static links
sendtf_NewStampForStatics(rvec, tvec, now) ==
    << ArucoCameraTf(rvec, tvec, now), CameraBodyTf(now + 1),
       WorldArucoTf(now + 1) >>

\* sendtf, lines 55-87: the transforms broadcast, in order
sendtf(rvec, tvec, now) ==
    << ArucoCameraTf(rvec, tvec, now), CameraBodyTf(now), WorldArucoTf(now) >>

----------------------------------------------------------------------------
(* processImage and the two handlers *)

\* a processImage that broadcasts whatever estimatePose returned
processImage_IgnoreSolve(tracker, map, detected, solution, now) ==
    LET drawn == getIndices(map, detected)
        solved == estimatePose(tracker, detected, solution)
    IN  IF PoseTrackerIsValid(tracker)
        THEN [drawn |-> drawn, estimateCalled |-> TRUE, estimateOk |-> solved,
              axisDrawn |-> TRUE, sendtfCalled |-> TRUE,
              tfs |-> sendtf(solution.rvec, solution.tvec, now)]
        ELSE [drawn |-> drawn, estimateCalled |-> FALSE, estimateOk |-> FALSE,
              axisDrawn |-> FALSE, sendtfCalled |-> FALSE, tfs |-> <<>>]

\* processImage, lines 91-112. detected is what mDetector_.detect returns,
\* solution what the pose solver would compute, now what ros::Time::now() returns.
processImage(tracker, map, detected, solution, now) ==
    LET drawn == getIndices(map, detected)
    IN  IF PoseTrackerIsValid(tracker)
        THEN IF estimatePose(tracker, detected, solution)
             THEN [drawn |-> drawn, estimateCalled |-> TRUE, estimateOk |-> TRUE,
                   axisDrawn |-> TRUE, sendtfCalled |-> TRUE,
                   tfs |-> sendtf(solution.rvec, solution.tvec, now)]
             ELSE [drawn |-> drawn, estimateCalled |-> TRUE, estimateOk |-> FALSE,
                   axisDrawn |-> FALSE, sendtfCalled |-> FALSE, tfs |-> <<>>]
        ELSE [drawn |-> drawn, estimateCalled |-> FALSE, estimateOk |-> FALSE,
              axisDrawn |-> FALSE, sendtfCalled |-> FALSE, tfs |-> <<>>]

\* the values of the oracles a callback does not consult
NoSolution == [ok |-> FALSE, rvec |-> <<0, 0, 0>>, tvec |-> <<0, 0, 0>>]

\* the record of a callback that has not run
NoFrame ==
    [ran |-> FALSE, decoded |-> FALSE, validBefore |-> FALSE,
     normCalled |-> FALSE, setParamsCalled |-> FALSE, threw |-> FALSE,
     otherCinfo |-> FALSE, processed |-> FALSE, validAtProcess |-> FALSE,
     drawn |-> {}, estimateCalled |-> FALSE, estimateOk |-> FALSE,
     axisDrawn |-> FALSE, sendtfCalled |-> FALSE, pose |-> NoSolution,
     shown |-> FALSE, images |-> 0]

NoCall ==
    [called |-> FALSE,
     cinfo |-> [K |-> <<>>, D |-> <<>>, width |-> Pixels(0), height |-> Pixels(0)],
     result |-> [threw |-> FALSE, at |-> <<>>, warned |-> FALSE,
                 params |-> DefaultCameraParameters]]

NoStamp == CHOOSE t \in Stamps : \A u \in Stamps : t <= u

\* a catch block that logs and falls through
ReturnsOnDecodeError_FallsThrough == FALSE

\* does the catch block of lines 120-123 leave the callback
ReturnsOnDecodeError == TRUE

\* a thread that is not inside cameraCallback
IdleThread ==
    [pc |-> "idle",
     cinfo |-> [K |-> <<>>, D |-> <<>>, width |-> Pixels(0), height |-> Pixels(0)]]

Init ==
    /\ pc = "constructing"
    /\ dbgAssert \in BOOLEAN
    /\ show_output_video_ = FALSE
    /\ mmConfig_ = DefaultMarkerMap
    /\ camParams_ = DefaultCameraParameters
    /\ mmPoseTracker_ = DefaultPoseTracker
    /\ convertLog = <<>>
    /\ setParamsCalls = 0
    /\ norm = NoCall
    /\ frame = NoFrame
    /\ br = <<>>
    /\ thr = [t \in Threads |-> IdleThread]

\* ArucoLocalizer::ArucoLocalizer, lines 7-45. A map file that cannot be read
\* makes readFromFile throw, which ends the process.
Constructor(file, show) ==
    /\ pc = "constructing"
    /\ show_output_video_' = show
    /\ IF ~file.readable
       THEN /\ pc' = "crashed"
            /\ UNCHANGED <<mmConfig_, convertLog>>
       ELSE LET loaded == readFromFile(file)
            IN  /\ pc' = "spinning"
                /\ IF NeedsConversion(loaded)
                   THEN /\ mmConfig_' = convertToMeters(loaded)
                        /\ convertLog' = Append(convertLog, loaded.mInfoType)
                   ELSE /\ mmConfig_' = loaded
                        /\ UNCHANGED convertLog
    /\ UNCHANGED <<dbgAssert, camParams_, mmPoseTracker_, setParamsCalls,
                   norm, frame, br, thr>>

\* cameraCallback, lines 116-158, for one (image, camera info) pair
cameraCallback(image, cinfo) ==
    /\ pc = "spinning"
    /\ IF ~image.decodable /\ ReturnsOnDecodeError
       THEN \* lines 120-123: log and return
            /\ frame' = [NoFrame EXCEPT !.ran = TRUE,
                                        !.validBefore = mmPoseTracker_.isValid]
            /\ br' = <<>>
            /\ UNCHANGED <<pc, camParams_, mmPoseTracker_, setParamsCalls, norm>>
       ELSE \E cfg \in {ConfigureTracker(mmPoseTracker_, camParams_, mmConfig_,
                                         cinfo, dbgAssert)} :
            LET begun == [NoFrame EXCEPT
                            !.ran = TRUE,
                            !.decoded = image.decodable,
                            !.validBefore = mmPoseTracker_.isValid,
                            !.normCalled = cfg.normCalled,
                            !.setParamsCalled = cfg.setParamsCalled,
                            !.otherCinfo = norm.called /\ cinfo # norm.cinfo]
            IN  IF cfg.threw
                THEN \* cv::Exception leaves the callback uncaught
                     /\ pc' = "crashed"
                     /\ frame' = [begun EXCEPT !.threw = TRUE]
                     /\ br' = <<>>
                     /\ norm' = cfg.call
                     /\ UNCHANGED <<camParams_, mmPoseTracker_, setParamsCalls>>
                ELSE \E detected \in SUBSET DetectableIds, solution \in Solutions,
                        now \in Stamps :
                     \E p \in {processImage(cfg.tracker, mmConfig_, detected,
                                            solution, now)} :
                         \* an oracle that is not consulted takes one fixed value
                         /\ ~p.estimateCalled => solution = NoSolution
                         /\ ~p.sendtfCalled => now = NoStamp
                         /\ pc' = pc
                         /\ camParams_' = cfg.camParams
                         /\ mmPoseTracker_' = cfg.tracker
                         /\ norm' = cfg.call
                         /\ setParamsCalls' =
                              IF cfg.setParamsCalled /\ setParamsCalls < 2
                              THEN setParamsCalls + 1 ELSE setParamsCalls
                         /\ br' = p.tfs
                         /\ frame' = [begun EXCEPT
                              !.processed = TRUE,
                              !.validAtProcess = cfg.tracker.isValid,
                              !.drawn = p.drawn,
                              !.estimateCalled = p.estimateCalled,
                              !.estimateOk = p.estimateOk,
                              !.axisDrawn = p.axisDrawn,
                              !.sendtfCalled = p.sendtfCalled,
                              !.pose = IF p.sendtfCalled THEN solution
                                       ELSE NoSolution,
                              !.shown = show_output_video_,
                              !.images = 1]
    /\ UNCHANGED <<dbgAssert, show_output_video_, mmConfig_, convertLog, thr>>

Next ==
    \/ \E file \in MapFiles, show \in BOOLEAN : Constructor(file, show)
    \/ \E image \in Images, cinfo \in CameraInfos : cameraCallback(image, cinfo)

Spec == Init /\ [][Next]_vars

----------------------------------------------------------------------------
(* cameraCallback run by several spinner threads: the code takes no lock, so
   the threads interleave between its statements *)

\* the camera infos of the interleaved callbacks: 4 distortion coefficients
ConcCameraInfos == { c \in CameraInfos : Len(c.D) = 4 }

\* the node after its constructor has loaded a map in meters
InitConc ==
    /\ pc = "spinning"
    /\ dbgAssert \in BOOLEAN
    /\ show_output_video_ = FALSE
    /\ mmConfig_ = readFromFile([readable |-> TRUE, mInfoType |-> "METERS"])
    /\ camParams_ = DefaultCameraParameters
    /\ mmPoseTracker_ = DefaultPoseTracker
    /\ convertLog = <<>>
    /\ setParamsCalls = 0
    /\ norm = NoCall
    /\ frame = NoFrame
    /\ br = <<>>
    /\ thr = [t \in Threads |-> IdleThread]

\* lines 116-126: the callback is entered and the image decoded
T_Receive(t, image, cinfo) ==
    /\ pc = "spinning" /\ thr[t].pc = "idle"
    /\ IF ~image.decodable /\ ReturnsOnDecodeError
       THEN UNCHANGED thr
       ELSE thr' = [thr EXCEPT ![t] = [pc |-> "check", cinfo |-> cinfo]]
    /\ UNCHANGED <<pc, dbgAssert, show_output_video_, mmConfig_, camParams_,
                   mmPoseTracker_, convertLog, setParamsCalls, norm, frame, br>>

\* line 129: the test that guards the configuration
T_Check(t) ==
    /\ pc = "spinning" /\ thr[t].pc = "check"
    /\ thr' = [thr EXCEPT ![t].pc =
                 IF ShouldConfigure(mmPoseTracker_, mmConfig_)
                 THEN "normalize" ELSE "enter"]
    /\ UNCHANGED <<pc, dbgAssert, show_output_video_, mmConfig_, camParams_,
                   mmPoseTracker_, convertLog, setParamsCalls, norm, frame, br>>

\* line 131: camParams_ = ros2arucoCamParams(cinfo)
T_Normalize(t) ==
    /\ pc = "spinning" /\ thr[t].pc = "normalize"
    /\ \E res \in {ros2arucoCamParams(thr[t].cinfo, dbgAssert)} :
          /\ norm' = [called |-> TRUE, cinfo |-> thr[t].cinfo, result |-> res]
          /\ IF res.threw
             THEN /\ pc' = "crashed"
                  /\ UNCHANGED <<camParams_, thr>>
             ELSE /\ pc' = pc
                  /\ camParams_' = res.params
                  /\ thr' = [thr EXCEPT ![t].pc = "validate"]
    /\ UNCHANGED <<dbgAssert, show_output_video_, mmConfig_, mmPoseTracker_,
                   convertLog, setParamsCalls, frame, br>>

\* line 134: the test of the shared camParams_
T_Validate(t) ==
    /\ pc = "spinning" /\ thr[t].pc = "validate"
    /\ thr' = [thr EXCEPT ![t].pc =
                 IF ShouldSetParams(camParams_) THEN "setParams" ELSE "enter"]
    /\ UNCHANGED <<pc, dbgAssert, show_output_video_, mmConfig_, camParams_,
                   mmPoseTracker_, convertLog, setParamsCalls, norm, frame, br>>

\* line 135, first half of setParams: the tracker copies its two arguments
T_SetParamsBegin(t) ==
    /\ pc = "spinning" /\ thr[t].pc = "setParams"
    /\ mmPoseTracker_' = [mmPoseTracker_ EXCEPT !.cam_params = camParams_,
                                                !.msconf = mmConfig_]
    /\ thr' = [thr EXCEPT ![t].pc = "setParamsEnd"]
    /\ UNCHANGED <<pc, dbgAssert, show_output_video_, mmConfig_, camParams_,
                   convertLog, setParamsCalls, norm, frame, br>>

\* line 135, second half of setParams: the tracker declares itself valid
T_SetParamsEnd(t) ==
    /\ pc = "spinning" /\ thr[t].pc = "setParamsEnd"
    /\ mmPoseTracker_' = setParams(mmPoseTracker_, mmPoseTracker_.cam_params,
                                   mmPoseTracker_.msconf)
    /\ setParamsCalls' = IF setParamsCalls < 2 THEN setParamsCalls + 1
                         ELSE setParamsCalls
    /\ thr' = [thr EXCEPT ![t].pc = "enter"]
    /\ UNCHANGED <<pc, dbgAssert, show_output_video_, mmConfig_, camParams_,
                   convertLog, norm, frame, br>>

\* lines 94-101: detection, and the test that guards the pose estimation
T_Enter(t) ==
    /\ pc = "spinning" /\ thr[t].pc = "enter"
    /\ IF PoseTrackerIsValid(mmPoseTracker_)
       THEN /\ thr' = [thr EXCEPT ![t].pc = "estimate"]
            /\ UNCHANGED br
       ELSE /\ thr' = [thr EXCEPT ![t].pc = "publish"]
            /\ br' = <<>>
    /\ UNCHANGED <<pc, dbgAssert, show_output_video_, mmConfig_, camParams_,
                   mmPoseTracker_, convertLog, setParamsCalls, norm, frame>>

\* lines 102-108: estimatePose reads the tracker's parameters, then sendtf
T_Estimate(t) ==
    /\ pc = "spinning" /\ thr[t].pc = "estimate"
    /\ \E detected \in SUBSET DetectableIds, solution \in Solutions,
          now \in Stamps :
       \E p \in {processImage(mmPoseTracker_, mmConfig_, detected,
                              solution, now)} :
          /\ ~p.sendtfCalled => (solution = NoSolution /\ now = NoStamp)
          /\ br' = p.tfs
    /\ thr' = [thr EXCEPT ![t].pc = "publish"]
    /\ UNCHANGED <<pc, dbgAssert, show_output_video_, mmConfig_, camParams_,
                   mmPoseTracker_, convertLog, setParamsCalls, norm, frame>>

\* lines 148-157: the output image is published and the callback returns
T_Publish(t) ==
    /\ pc = "spinning" /\ thr[t].pc = "publish"
    /\ frame' = [NoFrame EXCEPT !.ran = TRUE, !.decoded = TRUE,
                                !.processed = TRUE,
                                !.validAtProcess = mmPoseTracker_.isValid,
                                !.shown = show_output_video_, !.images = 1]
    /\ thr' = [thr EXCEPT ![t] = IdleThread]
    /\ UNCHANGED <<pc, dbgAssert, show_output_video_, mmConfig_, camParams_,
                   mmPoseTracker_, convertLog, setParamsCalls, norm, br>>

NextConc ==
    \/ \E t \in Threads, image \in Images, cinfo \in ConcCameraInfos :
          T_Receive(t, image, cinfo)
    \/ \E t \in Threads : T_Check(t)
    \/ \E t \in Threads : T_Normalize(t)
    \/ \E t \in Threads : T_Validate(t)
    \/ \E t \in Threads : T_SetParamsBegin(t)
    \/ \E t \in Threads : T_SetParamsEnd(t)
    \/ \E t \in Threads : T_Enter(t)
    \/ \E t \in Threads : T_Estimate(t)
    \/ \E t \in Threads : T_Publish(t)

SpecConc == InitConc /\ [][NextConc]_vars

----------------------------------------------------------------------------
(* Properties *)

Ready == mmPoseTracker_.isValid

\* the transforms of the last callback with the given parent and child
Published(parent, child) ==
    { i \in DOMAIN br : br[i].frame_id = parent /\ br[i].child_frame_id = child }

\* the last callback ran processImage on a Ready tracker and the solve succeeded
Solved == frame.processed /\ frame.validAtProcess /\ frame.estimateOk

\* C1: the tracker becomes Ready only in a callback that normalized that
\* frame's camera info into valid intrinsics while the map is in meters, and
\* a Ready tracker stays Ready.
C1_ReadyOnlyOnceConfigured ==
    [][/\ (~Ready /\ Ready') =>
            /\ mmConfig_.mInfoType = "METERS"
            /\ frame'.normCalled
            /\ ~norm'.result.threw
            /\ norm'.result.params.CamSize.width # 0 - 1
            /\ norm'.result.params.CamSize.height # 0 - 1
            /\ DOMAIN norm'.result.params.CameraMatrix # {}
            /\ mmPoseTracker_'.cam_params = norm'.result.params
            /\ mmPoseTracker_'.msconf.mInfoType = "METERS"
       /\ Ready => Ready']_vars

\* C1 witness: the callback that made the tracker Ready, after an earlier
\* callback had normalized intrinsics (frame.otherCinfo: from another message)
C1_Witness ==
    Ready /\ frame.setParamsCalled /\ ~frame.validBefore /\ frame.otherCinfo

\* C2: setParams is called at most once, and once the tracker is Ready no
\* callback changes camParams_ or the tracker's parameters, which are those of
\* the first valid configuration.
C2_ConfiguredOnce ==
    [][/\ setParamsCalls' <= 1
       /\ Ready => /\ camParams_' = camParams_
                   /\ mmPoseTracker_' = mmPoseTracker_
                   /\ norm' = norm
                   /\ ~frame'.setParamsCalled
       /\ Ready' => /\ mmPoseTracker_'.cam_params = camParams_'
                    /\ camParams_' = norm'.result.params]_vars

\* C2 witness: a Ready tracker has processed a frame whose camera info is not
\* the one it was configured from
C2_Witness ==
    /\ Ready /\ setParamsCalls = 1
    /\ frame.processed /\ frame.validBefore /\ frame.otherCinfo

\* the two static links, as sendtf broadcasts them
HasCameraBodyLink ==
    \E i \in DOMAIN br :
        /\ br[i].frame_id = "camera"
        /\ br[i].child_frame_id # "aruco"
        /\ br[i].transform.origin = <<0, 0, 0>>
HasWorldArucoLink ==
    \E i \in DOMAIN br :
        /\ br[i].frame_id = "world" /\ br[i].child_frame_id = "aruco"
        /\ br[i].transform.kind = "matrix"
        /\ br[i].transform.m = << <<1, 0, 0>>, <<0, 1, 0>>, <<0, 0, 1>> >>
        /\ br[i].transform.origin = <<0, 0, 0 - 4064>>

\* C3 as stated: every processed frame broadcasts the two static transforms,
\* whether or not the tracker is Ready and the solve succeeded.
C3_StaticsEveryFrame ==
    frame.processed => HasCameraBodyLink /\ HasWorldArucoLink

\* C3 amended: a processed frame broadcasts the two static transforms exactly
\* when the tracker is Ready and the solve succeeded; any other processed frame
\* broadcasts no transform at all.
C3_StaticsOnlyWithSolve ==
    frame.processed =>
        IF frame.validAtProcess /\ frame.estimateOk
        THEN HasCameraBodyLink /\ HasWorldArucoLink
        ELSE br = <<>>

\* C3 witness: a frame with a successful solve, and its transforms
C3_Witness == Solved /\ Len(br) = 3 /\ frame.drawn # {}

\* C4: aruco -> camera is broadcast only by a frame processed with a Ready
\* tracker whose estimatePose succeeded, which needs a detection of the map.
C4_DynamicOnlyOnSolve ==
    Published("aruco", "camera") # {} =>
        /\ frame.processed
        /\ frame.validAtProcess
        /\ frame.estimateCalled /\ frame.estimateOk
        /\ frame.drawn # {}

\* C4 witness: a Ready tracker, a frame without a detection of the map: the
\* solve failed and nothing was broadcast
C4_Witness ==
    /\ frame.processed /\ frame.validAtProcess
    /\ frame.estimateCalled /\ ~frame.estimateOk /\ frame.drawn = {}
    /\ Published("aruco", "camera") = {}

\* C5 as stated: every transform is world -> aruco, aruco -> camera or
\* camera -> body.
C5_FrameNamesWithBody ==
    \A i \in DOMAIN br :
        <<br[i].frame_id, br[i].child_frame_id>> \in
            { <<"world", "aruco">>, <<"aruco", "camera">>, <<"camera", "body">> }

\* C5 amended: every transform is world -> aruco, aruco -> camera or
\* camera -> chiny (the name the code gives the body frame), so the tree is
\* world -> aruco -> camera -> chiny.
C5_FrameNames ==
    \A i \in DOMAIN br :
        <<br[i].frame_id, br[i].child_frame_id>> \in
            { <<"world", "aruco">>, <<"aruco", "camera">>, <<"camera", "chiny">> }

\* C5 witness: all three pairs broadcast by one frame
C5_Witness ==
    /\ Published("world", "aruco") # {}
    /\ Published("aruco", "camera") # {}
    /\ Published("camera", "chiny") # {}

\* C6: whenever ros2arucoCamParams returns, the distortion has 4 coefficients:
\* the first 4 of D without a warning if D has 4 or 5, else zeros with a warning.
C6_DistortionRule ==
    (norm.called /\ ~norm.result.threw) =>
        LET D == norm.cinfo.D
            out == norm.result.params.Distorsion
        IN  /\ DOMAIN out = 1..4
            /\ IF Len(D) \in {4, 5}
               THEN (\A i \in 1..4 : out[i] = D[i]) /\ ~norm.result.warned
               ELSE (\A i \in 1..4 : out[i] = 0) /\ norm.result.warned

\* C6 witness: a distortion vector longer than 5 was normalized
C6_Witness ==
    norm.called /\ ~norm.result.threw /\ Len(norm.cinfo.D) > 5

\* C7 as stated: K[i] is written at row i/3, column i%3, both in 0..2, and all
\* 9 cells are assigned.
C7_RowMajorIndices ==
    norm.called =>
        /\ Len(norm.result.at) = 9
        /\ \A i \in 0..8 :
              /\ norm.result.at[i + 1] = <<i \div 3, i % 3>>
              /\ norm.result.at[i + 1][1] \in 0..2
              /\ norm.result.at[i + 1][2] \in 0..2
        /\ DOMAIN norm.result.params.CameraMatrix = 0..8

\* C8: a callback whose image does not decode changes neither the tracker nor
\* camParams_ nor the map, broadcasts and publishes nothing, and leaves the
\* node spinning.
C8_DecodeErrorSkipsFrame ==
    [][(frame'.ran /\ ~frame'.decoded) =>
            /\ mmPoseTracker_' = mmPoseTracker_
            /\ camParams_' = camParams_
            /\ mmConfig_' = mmConfig_
            /\ setParamsCalls' = setParamsCalls
            /\ br' = <<>>
            /\ frame'.images = 0 /\ ~frame'.shown /\ ~frame'.processed
            /\ pc' = "spinning"]_vars

\* C8 witness: a frame failed to decode while the tracker was Ready
C8_Witness == frame.ran /\ ~frame.decoded /\ Ready

\* C9: processImage on a tracker that is not Ready calls neither estimatePose
\* nor sendtf; the frame is annotated and the callback publishes its image.
C9_NoPoseQueryBeforeReady ==
    (frame.processed /\ ~frame.validAtProcess) =>
        /\ ~frame.estimateCalled /\ ~frame.sendtfCalled /\ ~frame.axisDrawn
        /\ br = <<>>
        /\ frame.images = 1
        /\ pc = "spinning"

\* C9 witness: a frame with a detection of the map, processed before Ready
C9_Witness ==
    frame.processed /\ ~frame.validAtProcess /\ ~Ready /\ frame.drawn # {}

\* C10: convertToMeters is called at most once, only by the constructor and
\* only on a map in pixels; no callback changes the map.
C10_ConvertedOnceInConstructor ==
    [][/\ Len(convertLog') <= 1
       /\ \A i \in DOMAIN convertLog' : convertLog'[i] = "PIX"
       /\ convertLog' # convertLog => pc = "constructing"
       /\ pc # "constructing" => mmConfig_' = mmConfig_]_vars

\* C10 witness: a map in pixels was converted, and frames were processed
C10_Witness ==
    convertLog = <<"PIX">> /\ mmConfig_.mInfoType = "METERS" /\ frame.processed

\* C12 as stated: every callback whose image decodes publishes exactly one
\* output image, after processImage, and leaves the node spinning; a failed
\* solve on a Ready tracker leaves the tracker as it was.
C12_OneImagePerDecodedFrame ==
    [][(frame'.ran /\ frame'.decoded) =>
            /\ frame'.processed
            /\ frame'.images = 1
            /\ pc' = "spinning"
            /\ (frame'.validBefore /\ frame'.estimateCalled
                    /\ ~frame'.estimateOk) => mmPoseTracker_' = mmPoseTracker_]_vars

\* the rotation matrix of a solver output of the model, written out
SolverRotation(rvec) ==
    IF rvec = <<1, 0, 0>>
    THEN << <<1, 0, 0>>, <<0, 0, 0 - 1>>, <<0, 1, 0>> >>
    ELSE IF rvec = <<0, 0, 2>>
    THEN << <<0 - 1, 0, 0>>, <<0, 0 - 1, 0>>, <<0, 0, 1>> >>
    ELSE << <<1, 0, 0>>, <<0, 1, 0>>, <<0, 0, 1>> >>

\* C13: the aruco -> camera transform carries rot * R_fixed^T, that is the
\* columns (-c1, c3, c2) of the solver's rotation, and the solver's translation;
\* for the identity and (0,0,0) it carries R_fixed and (0,0,0).
C13_RemapRotation ==
    frame.sendtfCalled =>
        LET rot == SolverRotation(frame.pose.rvec)
            out == br[1].transform
        IN  /\ out.kind = "matrix"
            /\ \A i \in 1..3 :
                  /\ out.m[i][1] = 0 - rot[i][1]
                  /\ out.m[i][2] = rot[i][3]
                  /\ out.m[i][3] = rot[i][2]
            /\ out.origin = frame.pose.tvec
            /\ (frame.pose.rvec = <<0, 0, 0>> /\ frame.pose.tvec = <<0, 0, 0>>) =>
                  /\ out.m = << <<0 - 1, 0, 0>>, <<0, 0, 1>>, <<0, 1, 0>> >>
                  /\ out.origin = <<0, 0, 0>>

\* C13 witness: a quarter turn about x with a translation was broadcast
C13_Witness ==
    /\ frame.sendtfCalled /\ frame.pose.rvec = <<1, 0, 0>>
    /\ br[1].transform.m = << <<0 - 1, 0, 0>>, <<0, 0 - 1, 0>>, <<0, 0, 1>> >>
    /\ br[1].transform.origin = <<1000, 0 - 2000, 5000>>

\* the camera info of the last ros2arucoCamParams call has a usable size
NormSizeUsable ==
    norm.cinfo.width # UInt32Max /\ norm.cinfo.height # UInt32Max

\* C14 as stated: with a map in meters, a decoded frame with valid intrinsics
\* met by a tracker that is not Ready makes it Ready in that callback, which
\* goes on to estimate the pose; a successful solve broadcasts three transforms.
C14_ReadyOnFirstValidFrame ==
    (/\ frame.ran /\ frame.decoded /\ ~frame.validBefore
     /\ mmConfig_.mInfoType = "METERS"
     /\ frame.normCalled /\ NormSizeUsable) =>
        /\ Ready
        /\ frame.setParamsCalled
        /\ frame.processed /\ frame.validAtProcess /\ frame.estimateCalled
        /\ frame.estimateOk => Len(br) = 3

\* C15 as stated: the size of the normalized intrinsics has the width and the
\* height of the message.
C15_SizePreserved ==
    (norm.called /\ ~norm.result.threw /\ NormSizeUsable) =>
        /\ norm.result.params.CamSize.width = norm.cinfo.width.lo
        /\ norm.result.params.CamSize.height = norm.cinfo.height.lo

\* C16: a callback broadcasts nothing, or exactly aruco -> camera, the camera
\* -> body link and world -> aruco, in this order and with one timestamp; it
\* broadcasts them exactly when it called sendtf.
C16_TransformsAsOneGroup ==
    /\ frame.sendtfCalled <=> br # <<>>
    /\ br # <<>> =>
          /\ Len(br) = 3
          /\ br[1].frame_id = "aruco" /\ br[1].child_frame_id = "camera"
          /\ br[2].frame_id = "camera" /\ br[2].child_frame_id = "chiny"
          /\ br[3].frame_id = "world" /\ br[3].child_frame_id = "aruco"
          /\ br[2].stamp = br[1].stamp /\ br[3].stamp = br[1].stamp

\* C16 witness: a group broadcast at the later of the two clock readings
C16_Witness ==
    Len(br) = 3 /\ \A i \in 1..3 : \A t \in Stamps : t <= br[i].stamp

\* C11 as stated, for callbacks run by several threads: only one of them
\* calls setParams, and no thread reads the tracker (estimatePose) while
\* another is inside setParams, between the copy of the parameters and the
\* assignment that makes the tracker valid.
C11_OneInitializerNoPartialRead ==
    /\ setParamsCalls <= 1
    /\ Cardinality({ t \in Threads :
                       thr[t].pc \in {"setParams", "setParamsEnd"} }) <= 1
    /\ \A a, b \in Threads :
          ~(thr[a].pc = "estimate" /\ thr[b].pc = "setParamsEnd")

====
